---- MODULE Spec2Model ----
(***************************************************************************)
(* A model of grpcmetrics: the gRPC stats.Handler that turns the per-RPC   *)
(* lifecycle callbacks (TagRPC, HandleRPC) into OpenTelemetry counters and *)
(* histograms.                                                             *)
(*                                                                         *)
(* Go strings that the code takes apart (fullMethodName) are sequences of  *)
(* one-character strings; strings the code only passes on are TLA+         *)
(* strings.  A nil pointer is the address 0.                               *)
(***************************************************************************)
EXTENDS Integers, Sequences, FiniteSets, Bags, TLC

----------------------------------------------------------------------------
(* Bounds of the model *)

\* number of TagRPC calls (rpc attempts) in a behaviour
MaxAttempts == 2
\* number of TagRPC and HandleRPC calls in a behaviour
MaxOps == 4
\* longest full method name handed to getAttributes on its own
MaxNameLen == 4
\* largest status code carried by a structured error
MaxCode == 17
\* longest option list handed to newHandler
MaxOptions == 2

----------------------------------------------------------------------------
(* google.golang.org/grpc/codes and status, as far as the handler uses them *)

CodeNames ==
  << "OK", "Canceled", "Unknown", "InvalidArgument", "DeadlineExceeded",
     "NotFound", "AlreadyExists", "PermissionDenied", "ResourceExhausted",
     "FailedPrecondition", "Aborted", "OutOfRange", "Unimplemented",
     "Internal", "Unavailable", "DataLoss", "Unauthenticated" >>

\* codes.Code.String(): the name of a known code, "Code(n)" otherwise
CodeString(c) ==
  IF c + 1 \in DOMAIN CodeNames THEN CodeNames[c + 1]
  ELSE "Code(" \o ToString(c) \o ")"

\* the number of the code with a given name (codes.NotFound, codes.Internal ...)
Code(name) == (CHOOSE i \in DOMAIN CodeNames : CodeNames[i] = name) - 1

\* error values: nil, an error that carries a gRPC status, any other error
NilError == [kind |-> "nil", code |-> 0, msg |-> ""]
StatusError(c, m) == [kind |-> "status", code |-> c, msg |-> m]
OpaqueError(m) == [kind |-> "opaque", code |-> 0, msg |-> m]

\* status.FromError on a non-nil error
FromError(err) ==
  IF err.kind = "status"
  THEN [s |-> [code |-> err.code, message |-> err.msg], ok |-> TRUE]
  ELSE [s |-> [code |-> Code("Unknown"), message |-> err.msg], ok |-> FALSE]

grpcStatusOK == [code |-> Code("OK"), message |-> "OK"]

getRPCStatusAlwaysInternal(err) ==
  IF err = NilError THEN grpcStatusOK
  ELSE [code |-> Code("Internal"), message |-> err.msg]

getRPCStatusUnknown(err) ==
  IF err = NilError THEN grpcStatusOK ELSE FromError(err).s

getRPCStatus(err) ==
  IF err = NilError THEN grpcStatusOK
  ELSE IF FromError(err).ok THEN FromError(err).s
  ELSE [code |-> Code("Internal"), message |-> err.msg]

----------------------------------------------------------------------------
(* strings.Split with a one-character separator, and getAttributes *)

RECURSIVE Split(_, _)
Split(s, sep) ==
  IF \A i \in 1..Len(s) : s[i] # sep THEN << s >>
  ELSE LET i == CHOOSE k \in 1..Len(s) :
                  s[k] = sep /\ \A j \in 1..(k - 1) : s[j] # sep
       IN  << SubSeq(s, 1, i - 1) >> \o Split(SubSeq(s, i + 1, Len(s)), sep)

\* the Go string made of the characters of s
RECURSIVE GoString(_)
GoString(s) == IF s = << >> THEN "" ELSE Head(s) \o GoString(Tail(s))

KeyValue(k, v) == [Key |-> k, Value |-> v]

RPCSystemGRPC == KeyValue("rpc.system", "grpc")

getAttributesLeadingParts(fullMethodName, err) ==
  LET rpcStatus == getRPCStatus(err)
      attr == << RPCSystemGRPC,
                 KeyValue("rpc.grpc.status_code", rpcStatus.code),
                 KeyValue("rpc.grpc.status", CodeString(rpcStatus.code)) >>
      parts == Split(fullMethodName, "/")
  IN  IF Len(parts) = 3
      THEN attr \o << KeyValue("rpc.service", GoString(parts[1])),
                      KeyValue("rpc.method", GoString(parts[2])) >>
      ELSE attr

getAttributes(fullMethodName, err) ==
  LET rpcStatus == getRPCStatus(err)
      attr == << RPCSystemGRPC,
                 KeyValue("rpc.grpc.status_code", rpcStatus.code),
                 KeyValue("rpc.grpc.status", CodeString(rpcStatus.code)) >>
      parts == Split(fullMethodName, "/")
  IN  IF Len(parts) = 3
      THEN attr \o << KeyValue("rpc.service", GoString(parts[2])),
                      KeyValue("rpc.method", GoString(parts[3])) >>
      ELSE attr

----------------------------------------------------------------------------
(* context.Context: the chain of values attached to it, innermost last *)

Background == << >>

WithValue(ctx, key, val) == Append(ctx, [key |-> key, val |-> val])

\* ctx.Value(key): the value attached last under key, nil (0) when there is none
\* a lookup that finds the value attached first
RECURSIVE ValueOutermost(_, _)
ValueOutermost(ctx, key) ==
  IF ctx = << >> THEN 0
  ELSE IF ctx[1].key = key THEN ctx[1].val
  ELSE ValueOutermost(Tail(ctx), key)

RECURSIVE Value(_, _)
Value(ctx, key) ==
  IF ctx = << >> THEN 0
  ELSE IF ctx[Len(ctx)].key = key THEN ctx[Len(ctx)].val
  ELSE Value(SubSeq(ctx, 1, Len(ctx) - 1), key)

\* a context an intermediate layer derives from ctx (WithCancel, WithValue
\* under a key of its own)
Derived(ctx) == WithValue(ctx, "otherKey", 0)

setRPCInfo(ctx, ri) == WithValue(ctx, "rpcInfoKey", ri)

\* the rpcInfo the context belongs to: the one attached to it last, 0 when
\* none was ever attached
Owner(ctx) ==
  LET tagged == { i \in DOMAIN ctx : ctx[i].key = "rpcInfoKey" }
  IN  IF tagged = {} THEN 0
      ELSE ctx[CHOOSE i \in tagged : \A j \in tagged : j <= i].val

----------------------------------------------------------------------------
(* rpcInfo, the heap of rpcInfo values, and sync/atomic *)

NewRPCInfo(name) ==
  [fullMethodName |-> name, sentMsgs |-> 0, sentBytes |-> 0,
   recvMsgs |-> 0, recvBytes |-> 0]

AllocReuse(heap) == IF Len(heap) > 0 THEN Len(heap) ELSE 1

\* &rpcInfo{...}: the address of a newly allocated value
Alloc(heap) == Len(heap) + 1

Max(a, b) == IF a >= b THEN a ELSE b

\* the heap with val stored at addr
Store(heap, addr, val) ==
  [a \in 1..Max(Len(heap), addr) |-> IF a = addr THEN val ELSE heap[a]]

AtomicStoreInt64(old, delta) == delta

\* atomic.AddInt64(&x, delta): the new value of x, in one indivisible step
AtomicAddInt64(old, delta) == old + delta

\* atomic.LoadInt64(&x)
AtomicLoadInt64(x) == x

----------------------------------------------------------------------------
(* Handler and newHandler *)

NilInstrument == [kind |-> "nil", name |-> "", unit |-> ""]

Instrument(kind, name, unit) == [kind |-> kind, name |-> name, unit |-> unit]

\* the options that decide which instruments exist
Options ==
  { [opt |-> o, val |-> v] :
      o \in {"WithInstrumentSizes", "WithInstrumentLatency"}, v \in BOOLEAN }

RECURSIVE SeqsUpTo(_, _)
SeqsUpTo(S, n) ==
  IF n = 0 THEN { << >> }
  ELSE LET shorter == SeqsUpTo(S, n - 1)
       IN  shorter \cup { Append(s, x) : s \in shorter, x \in S }

\* options that set one another's field
RECURSIVE applyOptionsSwapped(_, _)
applyOptionsSwapped(c, options) ==
  IF options = << >> THEN c
  ELSE LET o == Head(options)
           c1 == IF o.opt = "WithInstrumentSizes"
                 THEN [c EXCEPT !.instrumentLatency = o.val]
                 ELSE [c EXCEPT !.instrumentSizes = o.val]
       IN  applyOptionsSwapped(c1, Tail(options))

\* o.apply(&c) for each option in turn
RECURSIVE applyOptions(_, _)
applyOptions(c, options) ==
  IF options = << >> THEN c
  ELSE LET o == Head(options)
           c1 == IF o.opt = "WithInstrumentSizes"
                 THEN [c EXCEPT !.instrumentSizes = o.val]
                 ELSE [c EXCEPT !.instrumentLatency = o.val]
       IN  applyOptions(c1, Tail(options))

\* newHandler with a meter that rejects the instrument names in rejected:
\* the handler (h) and whether an error is returned (err)
NilHandler ==
  [isClient |-> FALSE, rpcDuration |-> NilInstrument,
   rpcRequestSize |-> NilInstrument, rpcResponseSize |-> NilInstrument,
   rpcRequestsPerRPC |-> NilInstrument, rpcResponsesPerRPC |-> NilInstrument]

\* a constructor that creates the duration histogram whatever the options
newHandlerEagerDuration(isClient, options, rejected) ==
  LET c == applyOptions([instrumentSizes |-> FALSE, instrumentLatency |-> FALSE],
                        options)
      prefix == IF isClient THEN "rpc.client" ELSE "rpc.server"
      h0 == [NilHandler EXCEPT !.isClient = isClient]
      requests == prefix \o ".requests_per_rpc"
      responses == prefix \o ".responses_per_rpc"
      duration == prefix \o ".duration"
      requestSize == prefix \o ".request.size"
      responseSize == prefix \o ".response.size"
      h1 == [h0 EXCEPT !.rpcRequestsPerRPC = Instrument("Int64Counter", requests, "1")]
      h2 == [h1 EXCEPT !.rpcResponsesPerRPC = Instrument("Int64Counter", responses, "1")]
      h3 == IF c.instrumentLatency
            THEN [h2 EXCEPT !.rpcDuration = Instrument("Float64Histogram", duration, "ms")]
            ELSE h2
      h4 == [h3 EXCEPT !.rpcRequestSize = Instrument("Int64Histogram", requestSize, "By")]
      h5 == [h4 EXCEPT !.rpcResponseSize = Instrument("Int64Histogram", responseSize, "By")]
      fail == [h |-> NilHandler, err |-> TRUE]
  IN  IF requests \in rejected THEN fail
      ELSE IF responses \in rejected THEN fail
      ELSE IF duration \in rejected THEN fail
      ELSE IF ~c.instrumentSizes THEN [h |-> h3, err |-> FALSE]
      ELSE IF requestSize \in rejected THEN fail
      ELSE IF responseSize \in rejected THEN fail
      ELSE [h |-> h5, err |-> FALSE]

\* a constructor that leaves the response-size histogram out
newHandlerRequestSizeOnly(isClient, options, rejected) ==
  LET c == applyOptions([instrumentSizes |-> FALSE, instrumentLatency |-> FALSE],
                        options)
      prefix == IF isClient THEN "rpc.client" ELSE "rpc.server"
      h0 == [NilHandler EXCEPT !.isClient = isClient]
      requests == prefix \o ".requests_per_rpc"
      responses == prefix \o ".responses_per_rpc"
      duration == prefix \o ".duration"
      requestSize == prefix \o ".request.size"
      responseSize == prefix \o ".response.size"
      h1 == [h0 EXCEPT !.rpcRequestsPerRPC = Instrument("Int64Counter", requests, "1")]
      h2 == [h1 EXCEPT !.rpcResponsesPerRPC = Instrument("Int64Counter", responses, "1")]
      h3 == IF c.instrumentLatency
            THEN [h2 EXCEPT !.rpcDuration = Instrument("Float64Histogram", duration, "ms")]
            ELSE h2
      h4 == [h3 EXCEPT !.rpcRequestSize = Instrument("Int64Histogram", requestSize, "By")]
      h5 == [h4 EXCEPT !.rpcResponseSize = Instrument("Int64Histogram", responseSize, "By")]
      fail == [h |-> NilHandler, err |-> TRUE]
  IN  IF requests \in rejected THEN fail
      ELSE IF responses \in rejected THEN fail
      ELSE IF c.instrumentLatency /\ duration \in rejected THEN fail
      ELSE IF ~c.instrumentSizes THEN [h |-> h3, err |-> FALSE]
      ELSE IF requestSize \in rejected THEN fail
      ELSE IF responseSize \in rejected THEN fail
      ELSE [h |-> h4, err |-> FALSE]

newHandler(isClient, options, rejected) ==
  LET c == applyOptions([instrumentSizes |-> FALSE, instrumentLatency |-> FALSE],
                        options)
      prefix == IF isClient THEN "rpc.client" ELSE "rpc.server"
      h0 == [NilHandler EXCEPT !.isClient = isClient]
      requests == prefix \o ".requests_per_rpc"
      responses == prefix \o ".responses_per_rpc"
      duration == prefix \o ".duration"
      requestSize == prefix \o ".request.size"
      responseSize == prefix \o ".response.size"
      h1 == [h0 EXCEPT !.rpcRequestsPerRPC = Instrument("Int64Counter", requests, "1")]
      h2 == [h1 EXCEPT !.rpcResponsesPerRPC = Instrument("Int64Counter", responses, "1")]
      h3 == IF c.instrumentLatency
            THEN [h2 EXCEPT !.rpcDuration = Instrument("Float64Histogram", duration, "ms")]
            ELSE h2
      h4 == [h3 EXCEPT !.rpcRequestSize = Instrument("Int64Histogram", requestSize, "By")]
      h5 == [h4 EXCEPT !.rpcResponseSize = Instrument("Int64Histogram", responseSize, "By")]
      fail == [h |-> NilHandler, err |-> TRUE]
  IN  IF requests \in rejected THEN fail
      ELSE IF responses \in rejected THEN fail
      ELSE IF c.instrumentLatency /\ duration \in rejected THEN fail
      ELSE IF ~c.instrumentSizes THEN [h |-> h3, err |-> FALSE]
      ELSE IF requestSize \in rejected THEN fail
      ELSE IF responseSize \in rejected THEN fail
      ELSE [h |-> h5, err |-> FALSE]

----------------------------------------------------------------------------
(* The state *)

VARIABLES
  h,          \* the Handler newHandler returned
  rpcInfos,   \* the heap of rpcInfo values, by address
  attempts,   \* the contexts TagRPC returned, in call order
  threads,    \* the goroutines of the transport inside HandleRPC
  emitted,    \* the bag of measurements handed to the instruments
  reported,   \* the errors handed to otel.Handle, in order
  delivered,  \* per rpcInfo address: the payload and end events HandleRPC was called with
  calls,      \* the number of HandleRPC calls so far
  last,       \* the latest HandleRPC call: the owner of its context, its switch case
  limit,      \* the number of TagRPC and HandleRPC calls the transport makes
  cancelled,  \* the contexts TagRPC returned that the transport has cancelled
  fn_in,      \* the arguments of a call of getRPCStatus or getAttributes on its own
  fn_out      \* and its result

vars == << h, rpcInfos, attempts, threads, emitted, reported, delivered, calls,
           last, limit, cancelled, fn_in, fn_out >>

fnvars == << fn_in, fn_out >>

Threads == {1, 2}

\* the full method names of the attempts
MethodNames == { << "/", "a", "/", "b" >> }

\* the completion errors of the attempts
EndErrors == { NilError, StatusError(Code("NotFound"), "error") }

\* stats.RPCStats values; "nil" is the nil interface, "ConnBegin" a value of a
\* type the switch has no case for
HeaderKinds == {"InHeader", "OutHeader", "InTrailer", "OutTrailer"}
UnhandledKinds == {"nil", "ConnBegin"}

RPCStats(type, length, err) == [type |-> type, Length |-> length, Error |-> err]

\* the payload lengths delivered
Lengths == {0, 2}

\* the readings of time.Since(rs.BeginTime), in milliseconds
Elapsed == {0, 1}

Events ==
  { RPCStats(k, 0, NilError) : k \in HeaderKinds \cup {"Begin"} \cup UnhandledKinds }
    \cup { RPCStats(k, n, NilError) : k \in {"InPayload", "OutPayload"}, n \in Lengths }
    \cup { RPCStats("End", 0, e) : e \in EndErrors }

\* the case of the type switch of HandleRPC an event is handled by
Case(rs) ==
  IF rs.type \in HeaderKinds THEN "header"
  ELSE IF rs.type \in {"Begin", "InPayload", "OutPayload", "End"} THEN rs.type
  ELSE "default"

EventsOf(case) == { rs \in Events : Case(rs) = case }

\* the contexts the transport can call TagRPC with
ParentContexts ==
  {Background} \cup { attempts[i].ctx : i \in DOMAIN attempts }

\* the contexts the transport can call HandleRPC with
Contexts ==
  ParentContexts \cup { Derived(ctx) : ctx \in ParentContexts }

IdleThread == [pc |-> "idle", ri |-> 0, rs |-> RPCStats("nil", 0, NilError),
               attrs |-> << >>]

NoEvents ==
  [InPayload |-> 0, OutPayload |-> 0, End |-> 0, InLength |-> 0, OutLength |-> 0]

\* the events delivered for an rpcInfo, one more counted
Count(d, rs) ==
  IF rs.type = "InPayload"
  THEN [d EXCEPT !.InPayload = @ + 1, !.InLength = @ + rs.Length]
  ELSE IF rs.type = "OutPayload"
  THEN [d EXCEPT !.OutPayload = @ + 1, !.OutLength = @ + rs.Length]
  ELSE IF rs.type = "End" THEN [d EXCEPT !.End = @ + 1]
  ELSE d

NoCall == [owner |-> 0, case |-> "none"]

\* a successfully constructed handler
Handlers ==
  { newHandler(isClient, options, {}).h :
      isClient \in BOOLEAN, options \in SeqsUpTo(Options, MaxOptions) }

FnIdle == [called |-> "none", status |-> grpcStatusOK, attrs |-> << >>]

Init ==
  /\ h \in Handlers
  /\ rpcInfos = << >>
  /\ attempts = << >>
  /\ threads = [t \in Threads |-> IdleThread]
  /\ emitted = EmptyBag
  /\ reported = << >>
  /\ delivered = << >>
  /\ calls = 0
  /\ last = NoCall
  /\ limit = MaxOps
  /\ cancelled = {}
  /\ fn_in = [fullMethodName |-> << >>, err |-> NilError]
  /\ fn_out = FnIdle

----------------------------------------------------------------------------
(* TagRPC *)

\* a TagRPC that leaves alone a context that carries a record already
TagRPCKeepsExisting(ctx, info) ==
  /\ Len(attempts) < MaxAttempts
  /\ Len(attempts) + calls < limit
  /\ LET ri == Alloc(rpcInfos)
     IN  /\ rpcInfos' = Store(rpcInfos, ri, NewRPCInfo(info.FullMethodName))
         /\ attempts' = Append(attempts, [ctx |-> IF Value(ctx, "rpcInfoKey") # 0 THEN ctx
                                           ELSE setRPCInfo(ctx, ri),
                                   ri |-> ri])
         /\ delivered' = [a \in DOMAIN delivered \cup {ri} |->
                            IF a \in DOMAIN delivered THEN delivered[a] ELSE NoEvents]
  /\ UNCHANGED << h, threads, emitted, reported, calls, last, limit, cancelled, fnvars >>

TagRPC(ctx, info) ==
  /\ Len(attempts) < MaxAttempts
  /\ Len(attempts) + calls < limit
  /\ LET ri == Alloc(rpcInfos)
     IN  /\ rpcInfos' = Store(rpcInfos, ri, NewRPCInfo(info.FullMethodName))
         /\ attempts' = Append(attempts, [ctx |-> setRPCInfo(ctx, ri), ri |-> ri])
         /\ delivered' = [a \in DOMAIN delivered \cup {ri} |->
                            IF a \in DOMAIN delivered THEN delivered[a] ELSE NoEvents]
  /\ UNCHANGED << h, threads, emitted, reported, calls, last, limit, cancelled, fnvars >>

----------------------------------------------------------------------------
(* HandleRPC.  A call runs on the idle goroutine of the lowest number; the  *)
(* steps of a call are the accesses to the shared rpcInfo and instruments.  *)

Free(t) ==
  /\ threads[t].pc = "idle"
  /\ \A u \in Threads : u < t => threads[u].pc # "idle"
  /\ Len(attempts) + calls < limit

\* a lookup that falls back on the rpcInfo allocated last
getRPCInfoGlobal(ctx) ==
  IF Value(ctx, "rpcInfoKey") # 0 THEN Value(ctx, "rpcInfoKey") ELSE Len(rpcInfos)

\* getRPCInfo: the *rpcInfo stored in the context, nil (0) if there is none
getRPCInfo(ctx) == Value(ctx, "rpcInfoKey")

\* what every call does to the record of calls
Called(ctx, rs) ==
  /\ calls' = calls + 1
  /\ last' = [owner |-> Owner(ctx), case |-> Case(rs)]
  /\ delivered' = [a \in DOMAIN delivered |->
                     IF a = Owner(ctx) THEN Count(delivered[a], rs) ELSE delivered[a]]

\* lines 184-187: no rpcInfo in the context
HandleRPCNoInfo(t, ctx, rs) ==
  /\ Free(t)
  /\ getRPCInfo(ctx) = 0
  /\ Called(ctx, rs)
  /\ UNCHANGED << h, rpcInfos, attempts, threads, emitted, reported, limit, cancelled, fnvars >>

\* a begin case that starts the record afresh
HandleRPCIgnoredResets(t, ctx, rs) ==
  /\ Free(t)
  /\ getRPCInfo(ctx) # 0
  /\ Case(rs) \in {"header", "Begin"}
  /\ Called(ctx, rs)
  /\ rpcInfos' = [rpcInfos EXCEPT ![getRPCInfo(ctx)] =
                    IF Case(rs) = "Begin" THEN NewRPCInfo(@.fullMethodName) ELSE @]
  /\ UNCHANGED << h, attempts, threads, emitted, reported, limit, cancelled, fnvars >>

\* lines 190-193: headers, trailers and begin
HandleRPCIgnored(t, ctx, rs) ==
  /\ Free(t)
  /\ getRPCInfo(ctx) # 0
  /\ Case(rs) \in {"header", "Begin"}
  /\ Called(ctx, rs)
  /\ UNCHANGED << h, rpcInfos, attempts, threads, emitted, reported, limit, cancelled, fnvars >>

\* a default case that reports nothing
HandleRPCDefaultSilent(t, ctx, rs) ==
  /\ Free(t)
  /\ getRPCInfo(ctx) # 0
  /\ Case(rs) = "default"
  /\ Called(ctx, rs)
  /\ UNCHANGED << h, rpcInfos, attempts, threads, emitted, reported, limit, cancelled, fnvars >>

\* lines 241-242: any other event
HandleRPCDefault(t, ctx, rs) ==
  /\ Free(t)
  /\ getRPCInfo(ctx) # 0
  /\ Case(rs) = "default"
  /\ Called(ctx, rs)
  /\ reported' = Append(reported, rs.type)
  /\ UNCHANGED << h, rpcInfos, attempts, threads, emitted, limit, cancelled, fnvars >>

\* the goroutine after the step at pc
Continue(t, pc, ri, rs, attrs) ==
  threads' = [threads EXCEPT ![t] =
                IF pc = "idle" THEN IdleThread
                ELSE [pc |-> pc, ri |-> ri, rs |-> rs, attrs |-> attrs]]

\* an inbound payload whose bytes are counted when the duration histogram exists
HandleRPCInPayloadByLatency(t, ctx, rs) ==
  /\ Free(t)
  /\ getRPCInfo(ctx) # 0
  /\ Case(rs) = "InPayload"
  /\ Called(ctx, rs)
  /\ LET ri == getRPCInfo(ctx)
     IN  /\ rpcInfos' = [rpcInfos EXCEPT ![ri].recvMsgs = AtomicAddInt64(@, 1)]
         /\ Continue(t, IF h.rpcDuration # NilInstrument THEN "recvBytes" ELSE "idle",
                     ri, rs, << >>)
  /\ UNCHANGED << h, attempts, emitted, reported, limit, cancelled, fnvars >>

\* lines 194-195, and the test of line 197
HandleRPCInPayload(t, ctx, rs) ==
  /\ Free(t)
  /\ getRPCInfo(ctx) # 0
  /\ Case(rs) = "InPayload"
  /\ Called(ctx, rs)
  /\ LET ri == getRPCInfo(ctx)
     IN  /\ rpcInfos' = [rpcInfos EXCEPT ![ri].recvMsgs = AtomicAddInt64(@, 1)]
         /\ Continue(t, IF h.rpcRequestSize # NilInstrument THEN "recvBytes" ELSE "idle",
                     ri, rs, << >>)
  /\ UNCHANGED << h, attempts, emitted, reported, limit, cancelled, fnvars >>

\* line 198
AddRecvBytes(t) ==
  /\ threads[t].pc = "recvBytes"
  /\ rpcInfos' = [rpcInfos EXCEPT ![threads[t].ri].recvBytes =
                    AtomicAddInt64(@, threads[t].rs.Length)]
  /\ Continue(t, "idle", 0, threads[t].rs, << >>)
  /\ UNCHANGED << h, attempts, emitted, reported, delivered, calls, last, limit, cancelled, fnvars >>

\* an outbound payload that counts as a message only when it has bytes
HandleRPCOutPayloadSkipsEmpty(t, ctx, rs) ==
  /\ Free(t)
  /\ getRPCInfo(ctx) # 0
  /\ Case(rs) = "OutPayload"
  /\ Called(ctx, rs)
  /\ LET ri == getRPCInfo(ctx)
     IN  /\ rpcInfos' = [rpcInfos EXCEPT ![ri].sentMsgs = AtomicAddInt64(@, IF rs.Length = 0 THEN 0 ELSE 1)]
         /\ Continue(t, IF h.rpcResponseSize # NilInstrument THEN "sentBytes" ELSE "idle",
                     ri, rs, << >>)
  /\ UNCHANGED << h, attempts, emitted, reported, limit, cancelled, fnvars >>

\* lines 200-201, and the test of line 203
HandleRPCOutPayload(t, ctx, rs) ==
  /\ Free(t)
  /\ getRPCInfo(ctx) # 0
  /\ Case(rs) = "OutPayload"
  /\ Called(ctx, rs)
  /\ LET ri == getRPCInfo(ctx)
     IN  /\ rpcInfos' = [rpcInfos EXCEPT ![ri].sentMsgs = AtomicAddInt64(@, 1)]
         /\ Continue(t, IF h.rpcResponseSize # NilInstrument THEN "sentBytes" ELSE "idle",
                     ri, rs, << >>)
  /\ UNCHANGED << h, attempts, emitted, reported, limit, cancelled, fnvars >>

\* an outbound payload counted as one byte
AddSentBytesOne(t) ==
  /\ threads[t].pc = "sentBytes"
  /\ rpcInfos' = [rpcInfos EXCEPT ![threads[t].ri].sentBytes = AtomicAddInt64(@, 1)]
  /\ Continue(t, "idle", 0, threads[t].rs, << >>)
  /\ UNCHANGED << h, attempts, emitted, reported, delivered, calls, last, limit,
                  cancelled, fnvars >>

\* line 204
AddSentBytes(t) ==
  /\ threads[t].pc = "sentBytes"
  /\ rpcInfos' = [rpcInfos EXCEPT ![threads[t].ri].sentBytes =
                    AtomicAddInt64(@, threads[t].rs.Length)]
  /\ Continue(t, "idle", 0, threads[t].rs, << >>)
  /\ UNCHANGED << h, attempts, emitted, reported, delivered, calls, last, limit, cancelled, fnvars >>

----------------------------------------------------------------------------
(* HandleRPC on stats.End: one step for each Add and Record *)

\* instrument.Add / instrument.Record with the context subCtx
\* (ri: the rpcInfo it is about)
Measurement(inst, subCtx, value, attrs, ri) ==
  [inst |-> inst, ctx |-> subCtx, value |-> value, attrs |-> attrs, ri |-> ri]

\* ctx.Err() # nil: ctx is, or derives from, a cancelled context
Err(ctx) ==
  \E c \in cancelled : Len(c) <= Len(ctx) /\ SubSeq(ctx, 1, Len(c)) = c

\* an instrument that keeps only the measurement it was handed last
RecordLatest(bag, m) ==
  IF Err(m.ctx) THEN bag
  ELSE LET kept == { n \in BagToSet(bag) : n.inst # m.inst }
       IN  [n \in kept |-> bag[n]] (+) SetToBag({m})

\* the measurements after an instrument is handed m; an instrument may drop
\* what it is handed with a cancelled context
Record(bag, m) == IF Err(m.ctx) THEN bag ELSE bag (+) SetToBag({m})

\* the counters read at lines 214-218
RequestMsgsSwapped(info) ==
  IF h.isClient THEN AtomicLoadInt64(info.recvMsgs) ELSE AtomicLoadInt64(info.sentMsgs)

RequestMsgs(info) ==
  IF h.isClient THEN AtomicLoadInt64(info.sentMsgs) ELSE AtomicLoadInt64(info.recvMsgs)

ResponseMsgs(info) ==
  IF h.isClient THEN AtomicLoadInt64(info.recvMsgs) ELSE AtomicLoadInt64(info.sentMsgs)

\* the counters read at lines 226-230 and 234-238
RequestBytesSwapped(info) ==
  IF h.isClient THEN AtomicLoadInt64(info.recvBytes) ELSE AtomicLoadInt64(info.sentBytes)

RequestBytes(info) ==
  IF h.isClient THEN AtomicLoadInt64(info.sentBytes) ELSE AtomicLoadInt64(info.recvBytes)

ResponseBytesSwapped(info) ==
  IF h.isClient THEN AtomicLoadInt64(info.sentBytes) ELSE AtomicLoadInt64(info.recvBytes)

ResponseBytes(info) ==
  IF h.isClient THEN AtomicLoadInt64(info.recvBytes) ELSE AtomicLoadInt64(info.sentBytes)

\* where a call on stats.End goes on after line 219, 223 and 231
AfterRequestSize == IF h.rpcResponseSize # NilInstrument THEN "responseSize" ELSE "idle"
\* line 225 without its nil check
AfterDurationUnguarded == "requestSize"

AfterDuration == IF h.rpcRequestSize # NilInstrument THEN "requestSize" ELSE AfterRequestSize
AfterResponsesNoDuration == AfterDuration
AfterResponses == IF h.rpcDuration # NilInstrument THEN "duration" ELSE AfterDuration

\* a stats.End case that measures with the context of the call
HandleRPCEndOriginalCtx(t, ctx, rs) ==
  /\ Free(t)
  /\ getRPCInfo(ctx) # 0
  /\ Case(rs) = "End"
  /\ Called(ctx, rs)
  /\ LET ri == getRPCInfo(ctx)
         subCtx == ctx
         attrs == getAttributes(rpcInfos[ri].fullMethodName, rs.Error)
     IN  /\ emitted' = Record(emitted,
                         Measurement(h.rpcRequestsPerRPC, subCtx,
                                     RequestMsgs(rpcInfos[ri]), attrs, ri))
         /\ Continue(t, "responses", ri, rs, attrs)
  /\ UNCHANGED << h, rpcInfos, attempts, reported, limit, cancelled, fnvars >>

\* lines 206-214 or 206-217: the attributes and the first Add
HandleRPCEnd(t, ctx, rs) ==
  /\ Free(t)
  /\ getRPCInfo(ctx) # 0
  /\ Case(rs) = "End"
  /\ Called(ctx, rs)
  /\ LET ri == getRPCInfo(ctx)
         subCtx == Background
         attrs == getAttributes(rpcInfos[ri].fullMethodName, rs.Error)
     IN  /\ emitted' = Record(emitted,
                         Measurement(h.rpcRequestsPerRPC, subCtx,
                                     RequestMsgs(rpcInfos[ri]), attrs, ri))
         /\ Continue(t, "responses", ri, rs, attrs)
  /\ UNCHANGED << h, rpcInfos, attempts, reported, limit, cancelled, fnvars >>

\* a later step that derives the attributes again, from the method name alone
EndStepFreshAttrs(t, pc, inst, value, next) ==
  /\ threads[t].pc = pc
  /\ emitted' = Record(emitted,
                  Measurement(inst, Background, value,
                              getAttributes(rpcInfos[threads[t].ri].fullMethodName, NilError),
                              threads[t].ri))
  /\ Continue(t, next, threads[t].ri, threads[t].rs, threads[t].attrs)
  /\ UNCHANGED << h, rpcInfos, attempts, reported, delivered, calls, last, limit, cancelled, fnvars >>

\* a later step of the call on stats.End that goroutine t is in
EndStep(t, pc, inst, value, next) ==
  /\ threads[t].pc = pc
  /\ emitted' = Record(emitted,
                  Measurement(inst, Background, value, threads[t].attrs, threads[t].ri))
  /\ Continue(t, next, threads[t].ri, threads[t].rs, threads[t].attrs)
  /\ UNCHANGED << h, rpcInfos, attempts, reported, delivered, calls, last, limit, cancelled, fnvars >>

\* a second Add that clears the record once it has read it
AddResponsesPerRPCResets(t) ==
  /\ threads[t].pc = "responses"
  /\ emitted' = Record(emitted,
                  Measurement(h.rpcResponsesPerRPC, Background,
                              ResponseMsgs(rpcInfos[threads[t].ri]),
                              threads[t].attrs, threads[t].ri))
  /\ rpcInfos' = [rpcInfos EXCEPT ![threads[t].ri] = NewRPCInfo(@.fullMethodName)]
  /\ Continue(t, AfterResponses, threads[t].ri, threads[t].rs, threads[t].attrs)
  /\ UNCHANGED << h, attempts, reported, delivered, calls, last, limit, cancelled,
                  fnvars >>

\* line 215 or 218
AddResponsesPerRPC(t) ==
  EndStep(t, "responses", h.rpcResponsesPerRPC,
          ResponseMsgs(rpcInfos[threads[t].ri]), AfterResponses)

\* lines 221-223, when time.Since(rs.BeginTime) is ms milliseconds
RecordDuration(t, ms) ==
  EndStep(t, "duration", h.rpcDuration, ms, AfterDuration)

\* lines 225-231
RecordRequestSize(t) ==
  EndStep(t, "requestSize", h.rpcRequestSize,
          RequestBytes(rpcInfos[threads[t].ri]), AfterRequestSize)

\* lines 233-239
RecordResponseSize(t) ==
  EndStep(t, "responseSize", h.rpcResponseSize,
          ResponseBytes(rpcInfos[threads[t].ri]), "idle")

----------------------------------------------------------------------------
(* The handler under the transport *)

Next ==
  \/ \E ctx \in ParentContexts, name \in MethodNames :
       TagRPC(ctx, [FullMethodName |-> name])
  \/ \E t \in Threads, ctx \in Contexts, rs \in Events : HandleRPCNoInfo(t, ctx, rs)
  \/ \E t \in Threads, ctx \in Contexts, rs \in EventsOf("header") \cup EventsOf("Begin") :
       HandleRPCIgnored(t, ctx, rs)
  \/ \E t \in Threads, ctx \in Contexts, rs \in EventsOf("default") :
       HandleRPCDefault(t, ctx, rs)
  \/ \E t \in Threads, ctx \in Contexts, rs \in EventsOf("InPayload") :
       HandleRPCInPayload(t, ctx, rs)
  \/ \E t \in Threads : AddRecvBytes(t)
  \/ \E t \in Threads, ctx \in Contexts, rs \in EventsOf("OutPayload") :
       HandleRPCOutPayload(t, ctx, rs)
  \/ \E t \in Threads : AddSentBytes(t)
  \/ \E t \in Threads, ctx \in Contexts, rs \in EventsOf("End") :
       HandleRPCEnd(t, ctx, rs)
  \/ \E t \in Threads : AddResponsesPerRPC(t)
  \/ \E t \in Threads, ms \in Elapsed : RecordDuration(t, ms)
  \/ \E t \in Threads : RecordRequestSize(t)
  \/ \E t \in Threads : RecordResponseSize(t)

Spec == Init /\ [][Next]_vars

----------------------------------------------------------------------------
(* The handler under a transport that cancels the contexts of the attempts *)

\* the transport cancels the context of attempt i (line 207: the "original ctx
\* could be canceled")
Cancel(i) ==
  /\ attempts[i].ctx \notin cancelled
  /\ cancelled' = cancelled \cup {attempts[i].ctx}
  /\ UNCHANGED << h, rpcInfos, attempts, threads, emitted, reported, delivered,
                  calls, last, limit, fnvars >>

CancelNext ==
  \/ Next
  \/ \E i \in DOMAIN attempts : Cancel(i)

CancelSpec == Init /\ [][CancelNext]_vars

----------------------------------------------------------------------------
(* The handler under unary calls, as in TestUnary: the handler is built with  *)
(* both histogram options; each attempt gets one inbound payload, then one    *)
(* outbound payload, then its end event without error, one call after the    *)
(* other, while calls of different attempts run side by side.                 *)

UnaryOptions ==
  << [opt |-> "WithInstrumentLatency", val |-> TRUE],
     [opt |-> "WithInstrumentSizes", val |-> TRUE] >>

\* the events of a unary call with payloads of 4 bytes
UnaryIn == RPCStats("InPayload", 4, NilError)
UnaryOut == RPCStats("OutPayload", 4, NilError)
UnaryEnd == RPCStats("End", 0, NilError)

UnaryInit ==
  /\ h \in { newHandler(isClient, UnaryOptions, {}).h : isClient \in BOOLEAN }
  /\ rpcInfos = << >>
  /\ attempts = << >>
  /\ threads = [t \in Threads |-> IdleThread]
  /\ emitted = EmptyBag
  /\ reported = << >>
  /\ delivered = << >>
  /\ calls = 0
  /\ last = NoCall
  /\ limit = 4 * MaxAttempts
  /\ cancelled = {}
  /\ fn_in = [fullMethodName |-> << >>, err |-> NilError]
  /\ fn_out = FnIdle

\* no call of HandleRPC for attempt i is in progress
Returned(i) == \A t \in Threads : threads[t].ri # attempts[i].ri

\* the payloads and the end event attempt i has got so far
Got(i) ==
  << delivered[attempts[i].ri].InPayload, delivered[attempts[i].ri].OutPayload,
     delivered[attempts[i].ri].End >>

UnaryNext ==
  \/ \E name \in MethodNames : TagRPC(Background, [FullMethodName |-> name])
  \/ \E t \in Threads, i \in DOMAIN attempts :
       /\ Returned(i) /\ Got(i) = << 0, 0, 0 >>
       /\ HandleRPCInPayload(t, attempts[i].ctx, UnaryIn)
  \/ \E t \in Threads, i \in DOMAIN attempts :
       /\ Returned(i) /\ Got(i) = << 1, 0, 0 >>
       /\ HandleRPCOutPayload(t, attempts[i].ctx, UnaryOut)
  \/ \E t \in Threads, i \in DOMAIN attempts :
       /\ Returned(i) /\ Got(i) = << 1, 1, 0 >>
       /\ HandleRPCEnd(t, attempts[i].ctx, UnaryEnd)
  \/ \E t \in Threads : AddRecvBytes(t)
  \/ \E t \in Threads : AddSentBytes(t)
  \/ \E t \in Threads : AddResponsesPerRPC(t)
  \/ \E t \in Threads, ms \in Elapsed : RecordDuration(t, ms)
  \/ \E t \in Threads : RecordRequestSize(t)
  \/ \E t \in Threads : RecordResponseSize(t)

UnarySpec == UnaryInit /\ [][UnaryNext]_vars

----------------------------------------------------------------------------
(* newHandler on its own, with a meter that rejects some instrument names *)

InstrumentSuffixes ==
  { ".requests_per_rpc", ".responses_per_rpc", ".duration", ".request.size",
    ".response.size" }

\* the name newHandler gives an instrument
InstrumentName(isClient, suffix) ==
  (IF isClient THEN "rpc.client" ELSE "rpc.server") \o suffix

NewInit ==
  /\ h = NilHandler
  /\ rpcInfos = << >>
  /\ attempts = << >>
  /\ threads = [t \in Threads |-> IdleThread]
  /\ emitted = EmptyBag
  /\ reported = << >>
  /\ delivered = << >>
  /\ calls = 0
  /\ last = NoCall
  /\ limit = MaxOps
  /\ cancelled = {}
  /\ \E isClient \in BOOLEAN, options \in SeqsUpTo(Options, MaxOptions),
        rejected \in SUBSET InstrumentSuffixes :
       fn_in = [isClient |-> isClient, options |-> options,
                rejected |-> { InstrumentName(isClient, x) : x \in rejected }]
  /\ fn_out = [called |-> "none", err |-> FALSE]

CallNewHandler ==
  /\ fn_out.called = "none"
  /\ LET res == newHandler(fn_in.isClient, fn_in.options, fn_in.rejected)
     IN  /\ h' = res.h
         /\ fn_out' = [called |-> "newHandler", err |-> res.err]
  /\ UNCHANGED << rpcInfos, attempts, threads, emitted, reported, delivered,
                  calls, last, limit, cancelled, fn_in >>

NewNext == CallNewHandler

NewSpec == NewInit /\ [][NewNext]_vars

----------------------------------------------------------------------------
(* Handlers chained on the same calls: the chain calls TagRPC of each handler *)
(* on the context the one before returned, and hands every event, with the   *)
(* last context, to each handler in turn.  h is the handler being called.    *)

\* the chain goes on to another handler
SwitchHandler(g) ==
  /\ \A t \in Threads : threads[t].pc = "idle"
  /\ g # h
  /\ h' = g
  /\ UNCHANGED << rpcInfos, attempts, threads, emitted, reported, delivered,
                  calls, last, limit, cancelled, fnvars >>

ChainNext ==
  \/ \E ctx \in ParentContexts, name \in MethodNames :
       TagRPC(ctx, [FullMethodName |-> name])
  \/ \E t \in Threads, ctx \in Contexts, rs \in EventsOf("InPayload") :
       HandleRPCInPayload(t, ctx, rs)
  \/ \E t \in Threads : AddRecvBytes(t)
  \/ \E t \in Threads, ctx \in Contexts, rs \in EventsOf("OutPayload") :
       HandleRPCOutPayload(t, ctx, rs)
  \/ \E t \in Threads : AddSentBytes(t)
  \/ \E g \in Handlers : SwitchHandler(g)

ChainSpec == Init /\ [][ChainNext]_vars

----------------------------------------------------------------------------
(* getRPCStatus and getAttributes on their own, over all short method names *)
(* and all errors                                                          *)

Chars == {"/", "a", "b"}

FnNames == SeqsUpTo(Chars, MaxNameLen)

FnErrors ==
  {NilError, OpaqueError("non rpc err")}
    \cup { StatusError(c, "") : c \in 0..MaxCode }

FnInit ==
  /\ h = newHandler(FALSE, << >>, {}).h
  /\ rpcInfos = << >>
  /\ attempts = << >>
  /\ threads = [t \in Threads |-> IdleThread]
  /\ emitted = EmptyBag
  /\ reported = << >>
  /\ delivered = << >>
  /\ calls = 0
  /\ last = NoCall
  /\ limit = MaxOps
  /\ cancelled = {}
  /\ fn_in \in [fullMethodName : FnNames, err : FnErrors]
  /\ fn_out = FnIdle

CallGetRPCStatus ==
  /\ fn_out.called = "none"
  /\ fn_out' = [called |-> "getRPCStatus", status |-> getRPCStatus(fn_in.err),
                attrs |-> << >>]
  /\ UNCHANGED << h, rpcInfos, attempts, threads, emitted, reported, delivered,
                  calls, last, limit, cancelled, fn_in >>

CallGetAttributes ==
  /\ fn_out.called = "none"
  /\ fn_out' = [called |-> "getAttributes", status |-> grpcStatusOK,
                attrs |-> getAttributes(fn_in.fullMethodName, fn_in.err)]
  /\ UNCHANGED << h, rpcInfos, attempts, threads, emitted, reported, delivered,
                  calls, last, limit, cancelled, fn_in >>

FnNext == CallGetRPCStatus \/ CallGetAttributes

FnSpec == FnInit /\ [][FnNext]_vars

----------------------------------------------------------------------------
(* What the claims speak of *)

\* the measurements an instrument received for an rpcInfo
Samples(inst, r) == { m \in BagToSet(emitted) : m.inst = inst /\ m.ri = r }

NumSamples(inst, r) == BagCardinality([m \in Samples(inst, r) |-> emitted[m]])

\* the measurements the step adds
NewMeasurements ==
  { m \in BagToSet(emitted') : CopiesIn(m, emitted') > CopiesIn(m, emitted) }

\* the instruments the handler has
Provisioned ==
  { h.rpcRequestsPerRPC, h.rpcResponsesPerRPC, h.rpcDuration, h.rpcRequestSize,
    h.rpcResponseSize } \ {NilInstrument}

\* a payload call, a call on stats.End, for rpcInfo r has not returned yet
PayloadInFlight(r) ==
  \E t \in Threads : threads[t].pc \in {"recvBytes", "sentBytes"} /\ threads[t].ri = r

EndInFlight(r) ==
  \E t \in Threads :
    /\ threads[t].pc \in {"responses", "duration", "requestSize", "responseSize"}
    /\ threads[t].ri = r

\* the one stats.End of r's attempt is the latest event delivered
EndIsLatest(r) ==
  /\ last = [owner |-> r, case |-> "End"]
  /\ delivered[r].End = 1

\* the requests and responses of an attempt, by the role of the handler
Requests(d) == IF h.isClient THEN d.OutPayload ELSE d.InPayload
Responses(d) == IF h.isClient THEN d.InPayload ELSE d.OutPayload
RequestLength(d) == IF h.isClient THEN d.OutLength ELSE d.InLength
ResponseLength(d) == IF h.isClient THEN d.InLength ELSE d.OutLength

\* the step is the start of a HandleRPC call
CallStep == calls' = calls + 1

\* the error of the stats.End whose call takes the step
EndErrorOfStep ==
  LET t == CHOOSE u \in Threads : threads'[u] # threads[u]
  IN  IF threads[t].pc = "idle" THEN threads'[t].rs.Error ELSE threads[t].rs.Error

----------------------------------------------------------------------------
\* C1: after N inbound and M outbound payload events followed by one end event,
\* the value added to requests_per_rpc and responses_per_rpc is (N, M) on a
\* server handler and (M, N) on a client handler.
C1_RequestsResponsesByRole ==
  \A r \in DOMAIN rpcInfos :
    EndIsLatest(r) =>
      /\ \A m \in Samples(h.rpcRequestsPerRPC, r) : m.value = Requests(delivered[r])
      /\ \A m \in Samples(h.rpcResponsesPerRPC, r) : m.value = Responses(delivered[r])
      /\ ~EndInFlight(r) =>
           /\ NumSamples(h.rpcRequestsPerRPC, r) = 1
           /\ NumSamples(h.rpcResponsesPerRPC, r) = 1

C1_Witness ==
  \E r \in DOMAIN rpcInfos :
    /\ ~h.isClient
    /\ EndIsLatest(r) /\ ~EndInFlight(r)
    /\ delivered[r].InPayload = 2 /\ delivered[r].OutPayload = 0
    /\ \E m \in Samples(h.rpcRequestsPerRPC, r) : m.value = 2
    /\ \E m \in Samples(h.rpcResponsesPerRPC, r) : m.value = 0

----------------------------------------------------------------------------
\* C2 as stated: whatever events are delivered with an attempt's context, once
\* the attempt has ended each counter has received exactly one Add for it and
\* each provisioned histogram exactly one Record.
C2_OncePerAttempt ==
  \A r \in DOMAIN rpcInfos :
    (delivered[r].End >= 1 /\ ~EndInFlight(r)) =>
      \A inst \in Provisioned : NumSamples(inst, r) = 1

\* C2 as amended: the terminal aggregation runs once for every end event
\* delivered with the attempt's context: each counter and each provisioned
\* histogram has received as many measurements for the attempt as end events
\* were delivered, and an instrument that is not provisioned none.
C2_OncePerEndEvent ==
  /\ \A m \in BagToSet(emitted) : m.inst \in Provisioned
  /\ \A r \in DOMAIN rpcInfos :
       ~EndInFlight(r) =>
         \A inst \in Provisioned : NumSamples(inst, r) = delivered[r].End

C2_Witness ==
  \E r \in DOMAIN rpcInfos :
    /\ delivered[r].End = 2 /\ ~EndInFlight(r)
    /\ h.rpcDuration # NilInstrument
    /\ NumSamples(h.rpcRequestsPerRPC, r) = 2
    /\ NumSamples(h.rpcDuration, r) = 2

----------------------------------------------------------------------------
\* C3: an end event with a non-nil error emits the payload counts (and, with
\* sizes on, the bytes) accumulated on the record, and resets nothing; after
\* NotFound the attributes carry the status NotFound.
C3_CountsKeptOnError ==
  [][\A m \in NewMeasurements :
       EndErrorOfStep # NilError =>
         /\ rpcInfos' = rpcInfos
         /\ m.inst = h.rpcRequestsPerRPC => m.value = Requests(delivered'[m.ri])
         /\ m.inst = h.rpcResponsesPerRPC => m.value = Responses(delivered'[m.ri])
         /\ (m.inst = h.rpcRequestSize /\ ~PayloadInFlight(m.ri)) =>
              m.value = RequestLength(delivered'[m.ri])
         /\ (m.inst = h.rpcResponseSize /\ ~PayloadInFlight(m.ri)) =>
              m.value = ResponseLength(delivered'[m.ri])
         /\ EndErrorOfStep = StatusError(5, "error") =>
              /\ m.attrs[2] = KeyValue("rpc.grpc.status_code", 5)
              /\ m.attrs[3] = KeyValue("rpc.grpc.status", "NotFound")]_vars

C3_Witness ==
  \E r \in DOMAIN rpcInfos :
    /\ ~h.isClient /\ h.rpcRequestSize # NilInstrument
    /\ EndIsLatest(r) /\ ~EndInFlight(r)
    /\ delivered[r].InPayload = 1 /\ delivered[r].InLength = 2
    /\ delivered[r].OutPayload = 0
    /\ \E m \in Samples(h.rpcRequestsPerRPC, r) :
         m.value = 1 /\ m.attrs[3].Value = "NotFound"
    /\ \E m \in Samples(h.rpcResponsesPerRPC, r) :
         m.value = 0 /\ m.attrs[3].Value = "NotFound"
    /\ \E m \in Samples(h.rpcRequestSize, r) :
         m.value = 2 /\ m.attrs[3].Value = "NotFound"

----------------------------------------------------------------------------
\* C4: no increment of the message counters is lost when payload events of
\* one attempt race: recvMsgs and sentMsgs equal the numbers of inbound and
\* outbound payload events, and an end event delivered after them emits these
\* totals.
C4_NoLostIncrement ==
  \A r \in DOMAIN rpcInfos :
    /\ rpcInfos[r].recvMsgs = delivered[r].InPayload
    /\ rpcInfos[r].sentMsgs = delivered[r].OutPayload
    /\ EndIsLatest(r) =>
         \A m \in Samples(h.rpcRequestsPerRPC, r) \cup Samples(h.rpcResponsesPerRPC, r) :
           m.value = IF (m.inst = h.rpcRequestsPerRPC) = h.isClient
                     THEN rpcInfos[r].sentMsgs ELSE rpcInfos[r].recvMsgs

\* two payload callbacks of one attempt are inside HandleRPC at the same time
C4_Witness ==
  \E r \in DOMAIN rpcInfos :
    /\ threads[1].pc = "recvBytes" /\ threads[1].ri = r
    /\ threads[2].pc = "recvBytes" /\ threads[2].ri = r
    /\ rpcInfos[r].recvMsgs = 2

----------------------------------------------------------------------------
\* C5: a record is never shared across attempts: TagRPC stores a record that
\* no earlier attempt has, with its four counters at zero, and leaves the other
\* records alone; a HandleRPC call changes the record of its own context only,
\* and what an end event emits are the counts of the events delivered with its
\* own context.
C5_RecordPerAttempt ==
  [][/\ Len(attempts') > Len(attempts) =>
          LET a == attempts'[Len(attempts')]
          IN  /\ a.ri \notin DOMAIN rpcInfos
              /\ \A i \in DOMAIN attempts : attempts[i].ri # a.ri
              /\ rpcInfos'[a.ri].recvMsgs = 0 /\ rpcInfos'[a.ri].sentMsgs = 0
              /\ rpcInfos'[a.ri].recvBytes = 0 /\ rpcInfos'[a.ri].sentBytes = 0
              /\ \A r \in DOMAIN rpcInfos : rpcInfos'[r] = rpcInfos[r]
     /\ CallStep =>
          \A t \in Threads :
            threads'[t] # threads[t] => threads'[t].ri = last'.owner
     /\ \A r \in DOMAIN rpcInfos :
          rpcInfos'[r] # rpcInfos[r] =>
            \/ CallStep /\ last'.owner = r
            \/ /\ ~CallStep
               /\ \E t \in Threads : threads'[t] # threads[t] /\ threads[t].ri = r
     /\ \A m \in NewMeasurements :
          /\ \E t \in Threads :
               /\ threads'[t] # threads[t]
               /\ m.ri = IF CallStep THEN last'.owner ELSE threads[t].ri
          /\ m.inst = h.rpcRequestsPerRPC => m.value = Requests(delivered'[m.ri])
          /\ m.inst = h.rpcResponsesPerRPC => m.value = Responses(delivered'[m.ri])
    ]_vars

\* attempt 1 has received a message, attempt 2 none, and attempt 2 has ended
C5_Witness ==
  /\ Len(attempts) = 2 /\ attempts[1].ri # attempts[2].ri
  /\ ~h.isClient
  /\ rpcInfos[attempts[1].ri].recvMsgs = 1
  /\ rpcInfos[attempts[2].ri].recvMsgs = 0
  /\ delivered[attempts[2].ri].End = 1
  /\ \E m \in Samples(h.rpcRequestsPerRPC, attempts[2].ri) : m.value = 0

----------------------------------------------------------------------------
\* C6: a HandleRPC call with a context that no record was attached to is a
\* no-op, whatever the event: no counter of any record changes, nothing is
\* emitted, and the call returns at once.
C6_NoRecordNoOp ==
  [][(CallStep /\ last'.owner = 0) =>
       UNCHANGED << h, rpcInfos, attempts, threads, emitted, reported, delivered >>]_vars

C6_Witness ==
  /\ last = [owner |-> 0, case |-> "End"]
  /\ Len(rpcInfos) >= 1
  /\ emitted = EmptyBag
  /\ \A t \in Threads : threads[t].pc = "idle"

----------------------------------------------------------------------------
\* C7 as stated: every event of an unrecognized kind is reported to the error
\* observer, and changes no counter and emits no measurement.
C7_UnrecognizedReported ==
  [][(CallStep /\ last'.case = "default") =>
       /\ Len(reported') = Len(reported) + 1
       /\ UNCHANGED << rpcInfos, emitted >>]_vars

\* C7 as amended: an event of an unrecognized kind is reported to the error
\* observer exactly when its context carries a record, and is not reported
\* when it carries none; either way it changes no counter and emits no
\* measurement.
C7_UnrecognizedReportedWithRecord ==
  [][(CallStep /\ last'.case = "default") =>
       /\ last'.owner # 0 => Len(reported') = Len(reported) + 1
       /\ last'.owner = 0 => reported' = reported
       /\ UNCHANGED << rpcInfos, emitted, threads >>]_vars

C7_Witness ==
  /\ last.case = "default" /\ last.owner # 0
  /\ Len(reported) = 1

----------------------------------------------------------------------------
\* the positions of the "/" characters of a method name
Slashes(name) == { i \in 1..Len(name) : name[i] = "/" }

\* the name is "/" S "/" M with S and M non-empty and free of "/"
IsServiceMethodForm(name) ==
  /\ Len(name) >= 4
  /\ name[1] = "/"
  /\ Cardinality(Slashes(name)) = 2
  /\ \A i \in Slashes(name) : i = 1 \/ (2 < i /\ i < Len(name))

HasKey(attrs, k) == \E i \in DOMAIN attrs : attrs[i].Key = k

\* C8 as stated: a method name of the form /S/M gives service=S and method=M;
\* a name of any other shape (no leading "/", an empty segment, fewer or more
\* segments) gives neither attribute and exactly the three status and system
\* attributes.
C8_ServiceMethodOnlyForForm ==
  fn_out.called = "getAttributes" =>
    LET name == fn_in.fullMethodName
        second == CHOOSE i \in Slashes(name) : i # 1
    IN  IF IsServiceMethodForm(name)
        THEN /\ Len(fn_out.attrs) = 5
             /\ fn_out.attrs[4] =
                  KeyValue("rpc.service", GoString(SubSeq(name, 2, second - 1)))
             /\ fn_out.attrs[5] =
                  KeyValue("rpc.method", GoString(SubSeq(name, second + 1, Len(name))))
        ELSE /\ Len(fn_out.attrs) = 3
             /\ ~HasKey(fn_out.attrs, "rpc.service")
             /\ ~HasKey(fn_out.attrs, "rpc.method")

\* C8 as amended: the service and method attributes are present exactly when
\* the method name holds exactly two "/" characters; the service is the text
\* between them and the method the text after the second, either of which may
\* be empty, and the text before the first "/" is dropped.  A name with fewer
\* or more "/" characters gives exactly the three status and system attributes.
C8_ServiceMethodIffTwoSlashes ==
  fn_out.called = "getAttributes" =>
    LET name == fn_in.fullMethodName
        first == CHOOSE i \in Slashes(name) : \A j \in Slashes(name) : i <= j
        second == CHOOSE i \in Slashes(name) : \A j \in Slashes(name) : j <= i
    IN  IF Cardinality(Slashes(name)) = 2
        THEN /\ Len(fn_out.attrs) = 5
             /\ fn_out.attrs[4] =
                  KeyValue("rpc.service", GoString(SubSeq(name, first + 1, second - 1)))
             /\ fn_out.attrs[5] =
                  KeyValue("rpc.method", GoString(SubSeq(name, second + 1, Len(name))))
        ELSE /\ Len(fn_out.attrs) = 3
             /\ ~HasKey(fn_out.attrs, "rpc.service")
             /\ ~HasKey(fn_out.attrs, "rpc.method")

C8_Witness ==
  /\ fn_out.called = "getAttributes"
  /\ fn_in.fullMethodName = << "/", "a", "/", "b" >>
  /\ fn_out.attrs[4] = KeyValue("rpc.service", "a")
  /\ fn_out.attrs[5] = KeyValue("rpc.method", "b")

----------------------------------------------------------------------------
\* the status code and the status name derived by the call made
DerivedCode ==
  IF fn_out.called = "getRPCStatus" THEN fn_out.status.code ELSE fn_out.attrs[2].Value

DerivedName ==
  IF fn_out.called = "getRPCStatus" THEN CodeString(fn_out.status.code)
  ELSE fn_out.attrs[3].Value

\* C9 as stated: a nil error derives code 0 and name "OK", a structured
\* NotFound error code 3 and name "NotFound", an unstructured error Internal.
C9_StatusNotFoundIs3 ==
  fn_out.called # "none" =>
    /\ fn_in.err = NilError => (DerivedCode = 0 /\ DerivedName = "OK")
    /\ (fn_in.err.kind = "status" /\ CodeString(fn_in.err.code) = "NotFound") =>
         (DerivedCode = 3 /\ DerivedName = "NotFound")
    /\ fn_in.err.kind = "opaque" => DerivedName = "Internal"

\* C9 as amended: a nil error derives code 0 and name "OK", a structured
\* NotFound error code 5 and name "NotFound", an unstructured error code 13,
\* Internal.
C9_StatusNotFoundIs5 ==
  fn_out.called # "none" =>
    /\ fn_in.err = NilError => (DerivedCode = 0 /\ DerivedName = "OK")
    /\ (fn_in.err.kind = "status" /\ CodeString(fn_in.err.code) = "NotFound") =>
         (DerivedCode = 5 /\ DerivedName = "NotFound")
    /\ fn_in.err.kind = "opaque" => (DerivedCode = 13 /\ DerivedName = "Internal")

C9_Witness ==
  /\ fn_out.called = "getRPCStatus"
  /\ fn_in.err.kind = "status" /\ fn_in.err.code = 5
  /\ fn_out.status.code = 5 /\ CodeString(fn_out.status.code) = "NotFound"

----------------------------------------------------------------------------
\* C10: for a structured error the status-code attribute is the code the error
\* carries and the status attribute is the name of that code, for every code
\* (InvalidArgument gives 3 and "InvalidArgument"); the two attributes always
\* denote the same code.
C10_StructuredCodeCarried ==
  fn_out.called = "getAttributes" =>
    /\ fn_out.attrs[2].Key = "rpc.grpc.status_code"
    /\ fn_out.attrs[3].Key = "rpc.grpc.status"
    /\ fn_out.attrs[3].Value = CodeString(fn_out.attrs[2].Value)
    /\ fn_in.err.kind = "status" =>
         /\ fn_out.attrs[2].Value = fn_in.err.code
         /\ fn_out.attrs[3].Value = CodeString(fn_in.err.code)
         /\ fn_in.err.code = 3 => fn_out.attrs[3].Value = "InvalidArgument"

C10_Witness ==
  /\ fn_out.called = "getAttributes"
  /\ fn_in.err.kind = "status" /\ fn_in.err.code = 3
  /\ fn_out.attrs[2] = KeyValue("rpc.grpc.status_code", 3)
  /\ fn_out.attrs[3] = KeyValue("rpc.grpc.status", "InvalidArgument")

----------------------------------------------------------------------------
\* the program counters of a call on stats.End
EndPcs == {"responses", "duration", "requestSize", "responseSize"}

\* goroutine t takes a step of a call on stats.End
EndStepOf(t) ==
  /\ threads'[t] # threads[t]
  /\ threads[t].pc \in EndPcs \/ (threads[t].pc = "idle" /\ threads'[t].pc = "responses")

\* C11: cancelling the attempt's context, before or during the end event, never
\* prevents a final measurement: every Add and Record of a call on the end
\* event is made with a detached context that is not cancelled, so each step
\* of the call hands over exactly one measurement, with the same value as
\* without cancellation.
C11_CancelKeepsMeasurements ==
  [][\A t \in Threads :
       EndStepOf(t) =>
         LET r == IF threads[t].pc = "idle" THEN threads'[t].ri ELSE threads[t].ri
         IN  /\ BagCardinality(emitted') = BagCardinality(emitted) + 1
             /\ \A m \in NewMeasurements :
                  /\ m.ri = r
                  /\ m.ctx = Background
                  /\ ~Err(m.ctx)
                  /\ m.inst = h.rpcRequestsPerRPC => m.value = Requests(delivered'[r])
                  /\ m.inst = h.rpcResponsesPerRPC => m.value = Responses(delivered'[r])
    ]_vars

\* the context of an attempt is cancelled while the call on its end event is
\* between the two Adds, and the first Add has been recorded
C11_Witness ==
  \E i \in DOMAIN attempts, t \in Threads :
    /\ Err(attempts[i].ctx)
    /\ threads[t].pc = "responses" /\ threads[t].ri = attempts[i].ri
    /\ delivered[attempts[i].ri].InPayload = 1
    /\ ~h.isClient
    /\ \E m \in Samples(h.rpcRequestsPerRPC, attempts[i].ri) : m.value = 1

----------------------------------------------------------------------------
\* the handler has the two size histograms
SizesOn == h.rpcRequestSize # NilInstrument /\ h.rpcResponseSize # NilInstrument

\* C12: with size histograms on, an attempt that has ended (one end event)
\* has exactly one sample in request.size and one in response.size, however
\* many messages it exchanged; the sample recorded once the payload calls have
\* returned is the sum of the payload lengths of the direction, by role:
\* received bytes are the server's request size and the client's response size.
C12_OneSizeSamplePerAttempt ==
  [][/\ \A r \in DOMAIN rpcInfos :
          (SizesOn /\ delivered'[r].End = 1 /\ ~EndInFlight(r)') =>
            /\ NumSamples(h.rpcRequestSize, r)' = 1
            /\ NumSamples(h.rpcResponseSize, r)' = 1
     /\ \A m \in NewMeasurements :
          ~PayloadInFlight(m.ri) =>
            /\ m.inst = h.rpcRequestSize =>
                 m.value = IF h.isClient THEN delivered[m.ri].OutLength
                           ELSE delivered[m.ri].InLength
            /\ m.inst = h.rpcResponseSize =>
                 m.value = IF h.isClient THEN delivered[m.ri].InLength
                           ELSE delivered[m.ri].OutLength
    ]_vars

\* a server has streamed two responses of 2 bytes each
C12_Witness ==
  \E r \in DOMAIN rpcInfos :
    /\ ~h.isClient /\ SizesOn
    /\ delivered[r].End = 1 /\ ~EndInFlight(r)
    /\ delivered[r].OutPayload = 2 /\ delivered[r].OutLength = 4
    /\ NumSamples(h.rpcResponseSize, r) = 1
    /\ NumSamples(h.rpcRequestSize, r) = 1
    /\ \E m \in Samples(h.rpcResponsesPerRPC, r) : m.value = 2
    /\ \E m \in Samples(h.rpcResponseSize, r) : m.value = 4
    /\ \E m \in Samples(h.rpcRequestSize, r) : m.value = 0

----------------------------------------------------------------------------
\* the option opt is enabled by a list of options: the last one that sets it
\* sets it to true
Enabled(options, opt) ==
  \E i \in DOMAIN options :
    /\ options[i] = [opt |-> opt, val |-> TRUE]
    /\ \A j \in (i + 1)..Len(options) : options[j].opt # opt

\* the number of measurements an attempt has on the instrument of a name
NumNamed(isClient, suffix, r) ==
  LET name == (IF isClient THEN "rpc.client" ELSE "rpc.server") \o suffix
      ms == { m \in BagToSet(emitted) : m.inst.name = name /\ m.ri = r }
  IN  BagCardinality([m \in ms |-> emitted[m]])

\* C13: the histograms are off by default and gated one by one: an attempt
\* that has ended has a duration sample if and only if the latency option was
\* enabled, request.size and response.size samples if and only if the sizes
\* option was enabled, and its two counter values in every configuration; a
\* handler built without options emits the two counters only.
C13_HistogramsGated ==
  \A isClient \in BOOLEAN, options \in SeqsUpTo(Options, MaxOptions) :
    h = newHandler(isClient, options, {}).h =>
      \A r \in DOMAIN rpcInfos :
        (delivered[r].End >= 1 /\ ~EndInFlight(r)) =>
          /\ NumNamed(isClient, ".requests_per_rpc", r) >= 1
          /\ NumNamed(isClient, ".responses_per_rpc", r) >= 1
          /\ NumNamed(isClient, ".duration", r) >= 1
               <=> Enabled(options, "WithInstrumentLatency")
          /\ NumNamed(isClient, ".request.size", r) >= 1
               <=> Enabled(options, "WithInstrumentSizes")
          /\ NumNamed(isClient, ".response.size", r) >= 1
               <=> Enabled(options, "WithInstrumentSizes")
          /\ options = << >> =>
               \A m \in BagToSet(emitted) : m.ri = r => m.inst.kind = "Int64Counter"

\* a server built with the latency option only has ended an attempt
C13_Witness ==
  \E r \in DOMAIN rpcInfos :
    /\ h = newHandler(FALSE, << [opt |-> "WithInstrumentLatency", val |-> TRUE] >>, {}).h
    /\ delivered[r].End = 1 /\ ~EndInFlight(r)
    /\ NumNamed(FALSE, ".duration", r) = 1
    /\ NumNamed(FALSE, ".request.size", r) = 0
    /\ NumNamed(FALSE, ".response.size", r) = 0
    /\ NumNamed(FALSE, ".requests_per_rpc", r) = 1
    /\ NumNamed(FALSE, ".responses_per_rpc", r) = 1

----------------------------------------------------------------------------
\* C14: in the unary scenario (no error, one request of 4 bytes received by
\* the server, one response of 4 bytes sent), the server's record after the
\* end event has recvMsgs = 1, recvBytes = 4 and sentMsgs = 1, and the server
\* has emitted requests_per_rpc = 1, responses_per_rpc = 1 and one
\* response.size sample of 4.
C14_UnaryScenario ==
  \A r \in DOMAIN rpcInfos :
    (~h.isClient /\ delivered[r].End = 1 /\ ~EndInFlight(r)) =>
      /\ rpcInfos[r].recvMsgs = 1
      /\ rpcInfos[r].recvBytes = 4
      /\ rpcInfos[r].sentMsgs = 1
      /\ NumSamples(h.rpcRequestsPerRPC, r) = 1
      /\ NumSamples(h.rpcResponsesPerRPC, r) = 1
      /\ NumSamples(h.rpcResponseSize, r) = 1
      /\ \A m \in Samples(h.rpcRequestsPerRPC, r) : m.value = 1
      /\ \A m \in Samples(h.rpcResponsesPerRPC, r) : m.value = 1
      /\ \A m \in Samples(h.rpcResponseSize, r) : m.value = 4

C14_Witness ==
  \E r \in DOMAIN rpcInfos :
    /\ ~h.isClient /\ delivered[r].End = 1 /\ ~EndInFlight(r)
    /\ delivered[r].InLength = 4 /\ delivered[r].OutLength = 4
    /\ rpcInfos[r].recvBytes = 4
    /\ \E m \in Samples(h.rpcResponseSize, r) : m.value = 4
    /\ \E m \in Samples(h.rpcRequestsPerRPC, r) :
         m.value = 1 /\ m.attrs[3].Value = "OK"

----------------------------------------------------------------------------
\* the sum of the values of a set of measurements, each as often as emitted
RECURSIVE SumValues(_)
SumValues(ms) ==
  IF ms = {} THEN 0
  ELSE LET m == CHOOSE x \in ms : TRUE
       IN  m.value * emitted[m] + SumValues(ms \ {m})

\* the cumulative value, and the number of samples, an instrument holds for
\* an attribute set
OnInstrument(inst, attrs) ==
  { m \in BagToSet(emitted) : m.inst = inst /\ m.attrs = attrs }

Cumulative(inst, attrs) == SumValues(OnInstrument(inst, attrs))

SampleCount(inst, attrs) ==
  BagCardinality([m \in OnInstrument(inst, attrs) |-> emitted[m]])

\* the attempts whose end event has been handled
Completed == { r \in DOMAIN rpcInfos : delivered[r].End = 1 /\ ~EndInFlight(r) }

RECURSIVE SumRequests(_)
SumRequests(rs) ==
  IF rs = {} THEN 0
  ELSE LET r == CHOOSE x \in rs : TRUE
       IN  Requests(delivered[r]) + SumRequests(rs \ {r})

RECURSIVE SumResponses(_)
SumResponses(rs) ==
  IF rs = {} THEN 0
  ELSE LET r == CHOOSE x \in rs : TRUE
       IN  Responses(delivered[r]) + SumResponses(rs \ {r})

\* the attribute set of a unary call without error
UnaryAttrs == getAttributes(CHOOSE name \in MethodNames : TRUE, NilError)

\* C19: measurements accumulate on the shared instruments: when K attempts
\* with the same attributes have completed and no end event is being handled,
\* the cumulative requests_per_rpc and responses_per_rpc values are the sums
\* of the attempts' request and response counts, and each provisioned
\* histogram holds K samples.
C19_AccumulateAcrossAttempts ==
  (\A r \in DOMAIN rpcInfos : ~EndInFlight(r)) =>
    /\ Cumulative(h.rpcRequestsPerRPC, UnaryAttrs) = SumRequests(Completed)
    /\ Cumulative(h.rpcResponsesPerRPC, UnaryAttrs) = SumResponses(Completed)
    /\ \A inst \in Provisioned : SampleCount(inst, UnaryAttrs) = Cardinality(Completed)

\* two unary calls: counter values 2, histogram counts 2
C19_Witness ==
  /\ Cardinality(Completed) = 2
  /\ \A t \in Threads : threads[t].pc = "idle"
  /\ Cumulative(h.rpcRequestsPerRPC, UnaryAttrs) = 2
  /\ Cumulative(h.rpcResponsesPerRPC, UnaryAttrs) = 2
  /\ SampleCount(h.rpcDuration, UnaryAttrs) = 2
  /\ SampleCount(h.rpcRequestSize, UnaryAttrs) = 2
  /\ SampleCount(h.rpcResponseSize, UnaryAttrs) = 2
  /\ Cumulative(h.rpcResponseSize, UnaryAttrs) = 8

----------------------------------------------------------------------------
\* C15: header, trailer and begin events have no effect: whatever the state of
\* the record, a HandleRPC call with one of them leaves the four counters and
\* the method name of every record unchanged and emits nothing; and only
\* TagRPC allocates a record.
C15_HeadersAndBeginNoEffect ==
  [][/\ (CallStep /\ last'.case \in {"header", "Begin"}) =>
          UNCHANGED << rpcInfos, emitted, reported, threads, attempts >>
     /\ Len(rpcInfos') # Len(rpcInfos) =>
          /\ ~CallStep
          /\ Len(attempts') = Len(attempts) + 1
          /\ Len(rpcInfos') = Len(rpcInfos) + 1
    ]_vars

\* a begin event delivered to a record that has counted a payload already
C15_Witness ==
  /\ last.case = "Begin" /\ last.owner # 0
  /\ h.rpcRequestSize # NilInstrument
  /\ rpcInfos[last.owner].recvMsgs = 1
  /\ rpcInfos[last.owner].recvBytes = 2
  /\ emitted = EmptyBag

----------------------------------------------------------------------------
\* ctx is c or derives from c
DerivesFrom(ctx, c) == Len(c) <= Len(ctx) /\ SubSeq(ctx, 1, Len(c)) = c

\* C16: context propagation round-trips: looking up the context TagRPC
\* returned for an attempt, or a context derived from it, gives exactly the
\* record TagRPC attached (an rpcInfo of the heap, never absent), and looking
\* up a context that no record was ever attached to gives absent.
C16_ContextRoundTrip ==
  /\ \A i \in DOMAIN attempts :
       /\ attempts[i].ri \in DOMAIN rpcInfos
       /\ getRPCInfo(attempts[i].ctx) = attempts[i].ri
       /\ getRPCInfo(Derived(attempts[i].ctx)) = attempts[i].ri
       /\ getRPCInfo(Derived(Derived(attempts[i].ctx))) = attempts[i].ri
  /\ \A ctx \in Contexts \cup {Derived(Derived(Background))} :
       (\A i \in DOMAIN attempts : ~DerivesFrom(ctx, attempts[i].ctx)) =>
         getRPCInfo(ctx) = 0

\* the context of attempt 2 derives from that of attempt 1, and a payload
\* delivered with it was counted on the record of attempt 2
C16_Witness ==
  /\ Len(attempts) = 2
  /\ DerivesFrom(attempts[2].ctx, attempts[1].ctx)
  /\ getRPCInfo(Derived(attempts[2].ctx)) = attempts[2].ri
  /\ getRPCInfo(Derived(Background)) = 0
  /\ last = [owner |-> attempts[2].ri, case |-> "InPayload"]
  /\ rpcInfos[attempts[2].ri].recvMsgs = 1
  /\ rpcInfos[attempts[1].ri].recvMsgs = 0

----------------------------------------------------------------------------
\* the names of the instruments a configuration requires
Required(isClient, options) ==
  { InstrumentName(isClient, ".requests_per_rpc"),
    InstrumentName(isClient, ".responses_per_rpc") }
    \cup (IF Enabled(options, "WithInstrumentLatency")
          THEN { InstrumentName(isClient, ".duration") } ELSE {})
    \cup (IF Enabled(options, "WithInstrumentSizes")
          THEN { InstrumentName(isClient, ".request.size"),
                 InstrumentName(isClient, ".response.size") }
          ELSE {})

\* the names of the instruments a handler has
Present(handler) ==
  { i.name : i \in { handler.rpcRequestsPerRPC, handler.rpcResponsesPerRPC,
                     handler.rpcDuration, handler.rpcRequestSize,
                     handler.rpcResponseSize } \ {NilInstrument} }

\* C17: construction fails with an error and yields no handler when the meter
\* rejects an instrument the configuration requires (a counter, the duration
\* histogram when latency is on, a size histogram when sizes are on), and
\* succeeds with exactly the required instruments otherwise; rejecting a
\* histogram that is disabled does not fail the construction.
C17_ConstructionFailsOnRejection ==
  fn_out.called = "newHandler" =>
    IF fn_in.rejected \cap Required(fn_in.isClient, fn_in.options) # {}
    THEN fn_out.err /\ h = NilHandler
    ELSE /\ ~fn_out.err
         /\ h.isClient = fn_in.isClient
         /\ Present(h) = Required(fn_in.isClient, fn_in.options)

\* the meter rejects the duration histogram, which is off: construction succeeds
C17_Witness ==
  /\ fn_out.called = "newHandler"
  /\ ~Enabled(fn_in.options, "WithInstrumentLatency")
  /\ Enabled(fn_in.options, "WithInstrumentSizes")
  /\ fn_in.rejected = { InstrumentName(fn_in.isClient, ".duration") }
  /\ ~fn_out.err
  /\ h.rpcDuration = NilInstrument
  /\ h.rpcRequestSize # NilInstrument

----------------------------------------------------------------------------
\* C18: attribute derivation is a function of the method name and the
\* completion error and changes no record: every measurement a call on an end
\* event emits, on either counter and on each provisioned histogram, carries
\* the attribute set derived from the record's method name and the event's
\* error, so all measurements of one end event carry the same attribute set.
C18_SameAttributesPerEnd ==
  [][/\ \A t \in Threads :
          EndStepOf(t) =>
            LET cur == IF threads[t].pc = "idle" THEN threads'[t] ELSE threads[t]
            IN  /\ rpcInfos' = rpcInfos
                /\ \A m \in NewMeasurements :
                     m.attrs = getAttributes(rpcInfos[cur.ri].fullMethodName,
                                             cur.rs.Error)
     /\ \A r \in DOMAIN rpcInfos :
          delivered'[r].End = 1 =>
            \A m1, m2 \in { m \in BagToSet(emitted') : m.ri = r } :
              m1.attrs = m2.attrs
    ]_vars

\* an attempt that failed with NotFound has a measurement on all five
\* instruments
C18_Witness ==
  \E r \in DOMAIN rpcInfos :
    /\ delivered[r].End = 1 /\ ~EndInFlight(r)
    /\ Cardinality(Provisioned) = 5
    /\ \A inst \in Provisioned :
         /\ NumSamples(inst, r) = 1
         /\ \A m \in Samples(inst, r) :
              m.attrs = getAttributes(rpcInfos[r].fullMethodName,
                                      StatusError(5, "error"))

----------------------------------------------------------------------------
\* C20: bytes are counted only when the size histograms are provisioned: on a
\* handler built with sizes off (with or without the latency option),
\* recvBytes and sentBytes stay 0 whatever payloads arrive, while recvMsgs and
\* sentMsgs count them; on a handler built with sizes on, once the payload
\* calls have returned recvBytes is the sum of the Lengths of the inbound
\* payloads and sentBytes that of the outbound payloads.
C20_BytesOnlyWithSizes ==
  \A isClient \in BOOLEAN, options \in SeqsUpTo(Options, MaxOptions) :
    h = newHandler(isClient, options, {}).h =>
      \A r \in DOMAIN rpcInfos :
        /\ rpcInfos[r].recvMsgs = delivered[r].InPayload
        /\ rpcInfos[r].sentMsgs = delivered[r].OutPayload
        /\ IF Enabled(options, "WithInstrumentSizes")
           THEN ~PayloadInFlight(r) =>
                  /\ rpcInfos[r].recvBytes = delivered[r].InLength
                  /\ rpcInfos[r].sentBytes = delivered[r].OutLength
           ELSE rpcInfos[r].recvBytes = 0 /\ rpcInfos[r].sentBytes = 0

\* a handler built with the latency option only has got payloads of 2 bytes
C20_Witness ==
  \E r \in DOMAIN rpcInfos :
    /\ h = newHandler(FALSE, << [opt |-> "WithInstrumentLatency", val |-> TRUE] >>, {}).h
    /\ delivered[r].InPayload = 1 /\ delivered[r].InLength = 2
    /\ delivered[r].OutPayload = 1 /\ delivered[r].OutLength = 2
    /\ rpcInfos[r].recvMsgs = 1 /\ rpcInfos[r].sentMsgs = 1
    /\ rpcInfos[r].recvBytes = 0 /\ rpcInfos[r].sentBytes = 0

----------------------------------------------------------------------------
\* C21: a successfully constructed handler has both size histograms or
\* neither, so gating the inbound bytes on the request-size instrument and the
\* outbound bytes on the response-size instrument never makes a size histogram
\* record bytes that were not accumulated: in either role, the byte counter a
\* size sample reads is one that is being accumulated, and once the payload
\* calls have returned the sample is the bytes delivered in its direction.
C21_SizeHistogramsTogether ==
  [][/\ (h.rpcRequestSize = NilInstrument) <=> (h.rpcResponseSize = NilInstrument)
     /\ \A m \in NewMeasurements :
          LET readsRecv == (m.inst = h.rpcRequestSize) = ~h.isClient
          IN  m.inst \in {h.rpcRequestSize, h.rpcResponseSize} =>
                /\ readsRecv => h.rpcRequestSize # NilInstrument
                /\ ~readsRecv => h.rpcResponseSize # NilInstrument
                /\ ~PayloadInFlight(m.ri) =>
                     m.value = IF readsRecv THEN delivered[m.ri].InLength
                               ELSE delivered[m.ri].OutLength
    ]_vars

\* a client's response.size sample holds the bytes the client received
C21_Witness ==
  \E r \in DOMAIN rpcInfos :
    /\ h.isClient /\ SizesOn
    /\ delivered[r].InPayload = 1 /\ delivered[r].InLength = 2
    /\ delivered[r].OutPayload = 0
    /\ delivered[r].End = 1 /\ ~EndInFlight(r)
    /\ rpcInfos[r].recvBytes = 2
    /\ \E m \in Samples(h.rpcResponseSize, r) : m.value = 2
    /\ \E m \in Samples(h.rpcRequestSize, r) : m.value = 0

----------------------------------------------------------------------------
\* the record with one field changed by n
Bumped(info, field, n) == [info EXCEPT ![field] = @ + n]

\* C22: a payload event changes exactly one message counter, by exactly 1
\* whatever its Length (a message of length 0 counts as a message and adds 0
\* bytes): an inbound payload adds 1 to recvMsgs and then, with sizes on, its
\* Length to recvBytes, and leaves sentMsgs and sentBytes alone; an outbound
\* payload does the same to sentMsgs and sentBytes and leaves recvMsgs and
\* recvBytes alone; no payload event emits a measurement.
C22_PayloadCountsOneMessage ==
  [][/\ (CallStep /\ last'.owner # 0 /\ last'.case = "InPayload") =>
          /\ rpcInfos'[last'.owner] = Bumped(rpcInfos[last'.owner], "recvMsgs", 1)
          /\ emitted' = emitted
     /\ (CallStep /\ last'.owner # 0 /\ last'.case = "OutPayload") =>
          /\ rpcInfos'[last'.owner] = Bumped(rpcInfos[last'.owner], "sentMsgs", 1)
          /\ emitted' = emitted
     /\ \A t \in Threads :
          (threads'[t] # threads[t] /\ threads[t].pc = "recvBytes") =>
            /\ rpcInfos'[threads[t].ri] =
                 Bumped(rpcInfos[threads[t].ri], "recvBytes", threads[t].rs.Length)
            /\ threads'[t].pc = "idle"
            /\ emitted' = emitted
     /\ \A t \in Threads :
          (threads'[t] # threads[t] /\ threads[t].pc = "sentBytes") =>
            /\ rpcInfos'[threads[t].ri] =
                 Bumped(rpcInfos[threads[t].ri], "sentBytes", threads[t].rs.Length)
            /\ threads'[t].pc = "idle"
            /\ emitted' = emitted
    ]_vars

\* an outbound payload of length 0 was counted as a message
C22_Witness ==
  \E r \in DOMAIN rpcInfos :
    /\ SizesOn
    /\ last = [owner |-> r, case |-> "OutPayload"]
    /\ \A t \in Threads : threads[t].pc = "idle"
    /\ delivered[r].OutPayload = 1 /\ delivered[r].OutLength = 0
    /\ rpcInfos[r].sentMsgs = 1 /\ rpcInfos[r].sentBytes = 0
    /\ rpcInfos[r].recvMsgs = 0 /\ rpcInfos[r].recvBytes = 0
    /\ emitted = EmptyBag

----------------------------------------------------------------------------
\* C23: the end event only reads the record: no step of a call on an end
\* event changes a counter or the method name of a record, and the record
\* stays attached to the attempt's context; the handler itself is never
\* changed, so it keeps no state of an attempt.
C23_EndOnlyReads ==
  [][/\ \A t \in Threads :
          EndStepOf(t) =>
            /\ rpcInfos' = rpcInfos
            /\ attempts' = attempts
            /\ \A i \in DOMAIN attempts :
                 getRPCInfo(attempts'[i].ctx) = attempts[i].ri
     /\ h' = h
    ]_vars

\* the record counted one message before its end event and one more after it
C23_Witness ==
  \E r \in DOMAIN rpcInfos :
    /\ ~h.isClient
    /\ delivered[r].End = 1 /\ ~EndInFlight(r)
    /\ last = [owner |-> r, case |-> "InPayload"]
    /\ delivered[r].InPayload = 2
    /\ rpcInfos[r].recvMsgs = 2
    /\ \E m \in Samples(h.rpcRequestsPerRPC, r) : m.value = 1

----------------------------------------------------------------------------
\* C24: when TagRPC is applied to a context that carries a record already,
\* lookup on the context it returns (and on what derives from it) gives the
\* record attached last; every later payload event delivered with it is
\* counted on that newest record and leaves the earlier records unchanged,
\* whichever handler is called with the event.
C24_NewestRecordWins ==
  [][/\ \A i \in DOMAIN attempts :
          /\ getRPCInfo(attempts[i].ctx) = attempts[i].ri
          /\ getRPCInfo(Derived(attempts[i].ctx)) = attempts[i].ri
          /\ \A j \in DOMAIN attempts : j < i => attempts[j].ri # attempts[i].ri
     /\ (CallStep /\ last'.owner # 0) =>
          /\ last'.case = "InPayload" =>
               rpcInfos'[last'.owner].recvMsgs = rpcInfos[last'.owner].recvMsgs + 1
          /\ last'.case = "OutPayload" =>
               rpcInfos'[last'.owner].sentMsgs = rpcInfos[last'.owner].sentMsgs + 1
          /\ \A r \in DOMAIN rpcInfos : r # last'.owner => rpcInfos'[r] = rpcInfos[r]
     /\ \A t \in Threads :
          (threads'[t] # threads[t] /\ threads[t].pc \in {"recvBytes", "sentBytes"}) =>
            \A r \in DOMAIN rpcInfos : r # threads[t].ri => rpcInfos'[r] = rpcInfos[r]
    ]_vars

\* two handlers, one with and one without size histograms, were called with
\* payloads of the context of attempt 2, which derives from that of attempt 1
C24_Witness ==
  /\ Len(attempts) = 2
  /\ DerivesFrom(attempts[2].ctx, attempts[1].ctx)
  /\ \A t \in Threads : threads[t].pc = "idle"
  /\ delivered[attempts[2].ri].InPayload = 2
  /\ delivered[attempts[2].ri].InLength = 4
  /\ rpcInfos[attempts[2].ri].recvMsgs = 2
  /\ rpcInfos[attempts[2].ri].recvBytes = 2
  /\ rpcInfos[attempts[1].ri] = NewRPCInfo(rpcInfos[attempts[1].ri].fullMethodName)

----------------------------------------------------------------------------
\* HandleRPC as a whole: the call on goroutine t with ctx and rs, up to its
\* first access to shared state
HandleRPC(t, ctx, rs) ==
  \/ HandleRPCNoInfo(t, ctx, rs)
  \/ HandleRPCIgnored(t, ctx, rs)
  \/ HandleRPCDefault(t, ctx, rs)
  \/ HandleRPCInPayload(t, ctx, rs)
  \/ HandleRPCOutPayload(t, ctx, rs)
  \/ HandleRPCEnd(t, ctx, rs)

\* the rest of the call that goroutine t is in
Resume(t) ==
  \/ AddRecvBytes(t)
  \/ AddSentBytes(t)
  \/ AddResponsesPerRPC(t)
  \/ \E ms \in Elapsed : RecordDuration(t, ms)
  \/ RecordRequestSize(t)
  \/ RecordResponseSize(t)

\* the instrument whose Add or Record the call of goroutine t runs next
\* (lines 215/218, 222, 227/229, 235/237)
Receiver(t) ==
  CASE threads[t].pc = "responses" -> h.rpcResponsesPerRPC
    [] threads[t].pc = "duration" -> h.rpcDuration
    [] threads[t].pc = "requestSize" -> h.rpcRequestSize
    [] threads[t].pc = "responseSize" -> h.rpcResponseSize
    [] OTHER -> h.rpcRequestsPerRPC

\* a nil pointer dereference or a method call on a nil instrument: the
\* run-time panics of HandleRPC
Faults ==
  \/ \E t \in Threads :
       /\ threads[t].pc # "idle"
       /\ \/ threads[t].ri \notin DOMAIN rpcInfos
          \/ Receiver(t) = NilInstrument
  \/ \E m \in BagToSet(emitted) : m.inst = NilInstrument

\* C25: HandleRPC never faults and always completes: in every reachable
\* state, with every handler that construction can return, a call with any
\* context (with a record, without one, with one whose stats.End was handled
\* already) and any event (the unrecognized kinds and the nil event
\* included) is accepted by one of the cases of HandleRPC, a call under way
\* has a next step to take, and no step dereferences a nil rpcInfo or calls a
\* nil instrument.
C25_HandleRPCNeverFaults ==
  /\ ~Faults
  /\ h \in Handlers
  /\ \A t \in Threads :
       /\ threads[t].pc # "idle" => ENABLED Resume(t)
       /\ Free(t) => \A ctx \in Contexts, rs \in Events : ENABLED HandleRPC(t, ctx, rs)

\* a handler without histograms has handled the stats.End of an attempt to
\* the end, and was then called with the nil event on the completed record
C25_Witness ==
  /\ h.rpcDuration = NilInstrument
  /\ h.rpcRequestSize = NilInstrument
  /\ \A t \in Threads : threads[t].pc = "idle"
  /\ \E r \in Completed :
       /\ last = [owner |-> r, case |-> "default"]
       /\ NumSamples(h.rpcRequestsPerRPC, r) = 1
       /\ NumSamples(h.rpcResponsesPerRPC, r) = 1
  /\ \E k \in DOMAIN reported : reported[k] = "nil"

====
